---- MODULE Spec2Model ----
(***************************************************************************)
(* Kiwi: a master/slave key-value store whose write path is a synchronous  *)
(* Two-Phase Commit.  The model covers                                     *)
(*   - the LevelDB adapter            (internal/storage/leveldb.go)        *)
(*   - the replication participant    (replication.Server)                 *)
(*   - the replication coordinator    (replication.Manager)                *)
(*   - the replicated store facade    (storage.ReplicatedStore)            *)
(* Strings are sequences of one-character strings, so that the composite   *)
(* engine key "collection:key" is a real concatenation.                    *)
(***************************************************************************)
EXTENDS Integers, Sequences, FiniteSets, TLC

(* ------------------------------ bounds --------------------------------- *)

\* number of facade calls (Put / Delete) a behaviour may start
MaxCalls == 2

\* number of requests the stand-alone participant specification delivers
MaxRequests == 3

(* ------------------------------ universe ------------------------------- *)

Master == "master"

\* SLAVE_ADDRS of the master (one address per slave node)
SlaveAddrs == {"slave-1", "slave-2"}

Nodes == {Master} \cup SlaveAddrs

\* ROLE in the environment of each node
EnvRole == [n \in Nodes |-> IF n = Master THEN "master" ELSE "slave"]

RoleMaster == "master"

RoleSlave == "slave"

Collections == {<<"c">>}

\* the empty key is a legal argument of the store methods
Keys == {<<>>, <<"k">>}

\* decoded JSON values as the HTTP adapter hands them to the store
Values == {[kind |-> "number", text |-> "1"], [kind |-> "string", text |-> "a"]}

NoValue == [kind |-> "null", text |-> "null"]

OpPut == "PUT"

OpDelete == "DELETE"

NoBytes == <<>>

\* the HTTP handler goroutines that run facade calls side by side
Handlers == {"h1", "h2"}

\* transaction ids: "txn-<nanos>-<counter>", kept as the counter that makes
\* them unique within one master process
TxnName(id) == <<"txn", id>>

(* ------------------------ internal/config (Load) ----------------------- *)

\* Load: an unknown ROLE falls back to master
LoadRole(env) == IF env # RoleMaster /\ env # RoleSlave THEN RoleMaster ELSE env

IsMaster(n) == LoadRole(EnvRole[n]) = RoleMaster

\* the role compared with the wrong constant
IsSlave_Replica(n) == LoadRole(EnvRole[n]) = "replica"

IsSlave(n) == LoadRole(EnvRole[n]) = RoleSlave

(* ------------------------ storage.LevelDBStore ------------------------- *)

EmptyDb == [x \in {} |-> <<>>]

(* A database is a function from composite keys to byte strings.  Every    *)
(* operator returns [db, err]; err = "" stands for nil.  The parameter     *)
(* fail is the engine's own I/O failure on a write.                        *)

ErrInvalidKey == "invalid key"

ErrKeyNotFound == "key not found"

ErrEngine == "engine error"

makeKey(collection, key) == collection \o <<":">> \o key

\* an encoder that writes a string without its quotes
Marshal_Raw(value) == <<value.text>>

\* encoding/json.Marshal on a decoded JSON value
Marshal(value) ==
    IF value.kind = "string" THEN <<"\"", value.text, "\"">> ELSE <<value.text>>

dbPut(db, dbKey, data) == [x \in DOMAIN db \cup {dbKey} |-> IF x = dbKey THEN data ELSE db[x]]

dbDelete(db, dbKey) == [x \in DOMAIN db \ {dbKey} |-> db[x]]

PutDirect(db, collection, key, value, fail) ==
    IF key = <<>> THEN [db |-> db, err |-> ErrInvalidKey]
    ELSE IF fail THEN [db |-> db, err |-> ErrEngine]
    ELSE [db |-> dbPut(db, makeKey(collection, key), value), err |-> ""]

\* a raw delete that reports success and removes nothing
DeleteDirect_Keep(db, collection, key, fail) == [db |-> db, err |-> ""]

DeleteDirect(db, collection, key, fail) ==
    IF key = <<>> THEN [db |-> db, err |-> ErrInvalidKey]
    ELSE IF fail THEN [db |-> db, err |-> ErrEngine]
    ELSE [db |-> dbDelete(db, makeKey(collection, key)), err |-> ""]

\* a Put that reports the engine's error and has written nonetheless
StorePut_WritesOnError(db, collection, key, value, fail) ==
    IF key = <<>> THEN [db |-> db, err |-> ErrInvalidKey]
    ELSE [db |-> dbPut(db, makeKey(collection, key), Marshal(value)),
          err |-> IF fail THEN ErrEngine ELSE ""]

StorePut(db, collection, key, value, fail) ==
    IF key = <<>> THEN [db |-> db, err |-> ErrInvalidKey]
    ELSE IF fail THEN [db |-> db, err |-> ErrEngine]
    ELSE [db |-> dbPut(db, makeKey(collection, key), Marshal(value)), err |-> ""]

\* Delete: the existence check, then the engine delete
StoreDelete(db, collection, key, fail) ==
    IF key = <<>> THEN [db |-> db, err |-> ErrInvalidKey]
    ELSE IF makeKey(collection, key) \notin DOMAIN db
    THEN [db |-> db, err |-> ErrKeyNotFound]
    ELSE IF fail THEN [db |-> db, err |-> ErrEngine]
    ELSE [db |-> dbDelete(db, makeKey(collection, key)), err |-> ""]

\* a lookup that does not report a missing key
StoreGetErr_NoCheck(db, collection, key) ==
    IF key = <<>> THEN ErrInvalidKey ELSE ""

\* Get: the error of a lookup ("" when the key is present)
StoreGetErr(db, collection, key) ==
    IF key = <<>> THEN ErrInvalidKey
    ELSE IF makeKey(collection, key) \notin DOMAIN db THEN ErrKeyNotFound
    ELSE ""

\* the one-token JSON numbers of the model
Numbers == {"0", "1"}

\* encoding/json.Unmarshal into an interface{}: a quoted text is a string, a
\* number token a number, anything else (no bytes at all included) an error
Unmarshal(data) ==
    IF Len(data) = 3 /\ data[1] = "\"" /\ data[3] = "\""
    THEN [value |-> [kind |-> "string", text |-> data[2]], err |-> ""]
    ELSE IF Len(data) = 1 /\ data[1] \in Numbers
    THEN [value |-> [kind |-> "number", text |-> data[1]], err |-> ""]
    ELSE [value |-> NoValue, err |-> "failed to deserialize value"]

\* Get: the decoded value and the error
StoreGet(db, collection, key) ==
    IF key = <<>> THEN [value |-> NoValue, err |-> ErrInvalidKey]
    ELSE IF makeKey(collection, key) \notin DOMAIN db
    THEN [value |-> NoValue, err |-> ErrKeyNotFound]
    ELSE Unmarshal(db[makeKey(collection, key)])

HasPrefix(dbKey, prefix) ==
    Len(dbKey) >= Len(prefix) /\ SubSeq(dbKey, 1, Len(prefix)) = prefix

\* the iterator over util.BytesPrefix(collection + ":")
Scan(db, collection) == {x \in DOMAIN db : HasPrefix(x, collection \o <<":">>)}

\* key[len(collection)+1:]
actualKey(dbKey, collection) == SubSeq(dbKey, Len(collection) + 2, Len(dbKey))

\* a List that iterates over the whole database
StoreList_Unscoped(db, collection) ==
    LET hits == {x \in DOMAIN db : Unmarshal(db[x]).err = ""} IN
    [a \in {actualKey(x, collection) : x \in hits} |->
        Unmarshal(db[CHOOSE x \in hits : actualKey(x, collection) = a]).value]

\* List: the decoded entries under the prefix, malformed ones skipped
StoreList(db, collection) ==
    LET hits == {x \in Scan(db, collection) : Unmarshal(db[x]).err = ""} IN
    [a \in {actualKey(x, collection) : x \in hits} |->
        Unmarshal(db[CHOOSE x \in hits : actualKey(x, collection) = a]).value]

\* Count: the entries under the prefix, malformed ones included
StoreCount(db, collection) == Cardinality(Scan(db, collection))

\* everything before the first colon of a key
collectionOf(dbKey) ==
    LET i == CHOOSE j \in 1..Len(dbKey) :
                dbKey[j] = ":" /\ \A m \in 1..(j - 1) : dbKey[m] # ":"
    IN SubSeq(dbKey, 1, i - 1)

\* ListCollections (keys without a colon name no collection)
StoreListCollections(db) ==
    {collectionOf(x) : x \in {y \in DOMAIN db : \E j \in 1..Len(y) : y[j] = ":"}}

(* -------------------------- replication.Server ------------------------- *)
(* pending maps a transaction id to the staged PendingTransaction.  The    *)
(* handlers hold s.mu for their whole body, so each is one atomic step.    *)

EmptyPending == [t \in {} |-> <<>>]

PendingTransaction(req) ==
    [Operation |-> req.Operation, Collection |-> req.Collection,
     Key |-> req.Key, Value |-> req.Value]

stage(pend, txnID, txn) ==
    [t \in DOMAIN pend \cup {txnID} |-> IF t = txnID THEN txn ELSE pend[t]]

unstage(pend, txnID) == [t \in DOMAIN pend \ {txnID} |-> pend[t]]

\* a Prepare that stages again over an entry it already holds
ServerPrepare_Overwrite(pend, req) ==
    [pending |-> stage(pend, req.TransactionId, PendingTransaction(req)), Ready |-> TRUE]

ServerPrepare(pend, req) ==
    IF req.TransactionId \in DOMAIN pend
    THEN [pending |-> pend, Ready |-> TRUE]
    ELSE [pending |-> stage(pend, req.TransactionId, PendingTransaction(req)),
          Ready |-> TRUE]

\* a commit that acknowledges without writing
ApplyStaged_Discard(db, txn, fail) == [db |-> db, err |-> ""]

\* the switch on txn.Operation: an operation that is neither PUT nor DELETE
\* matches no case and leaves err nil
ApplyStaged(db, txn, fail) ==
    IF txn.Operation = OpPut
    THEN PutDirect(db, txn.Collection, txn.Key, txn.Value, fail)
    ELSE IF txn.Operation = OpDelete
    THEN DeleteDirect(db, txn.Collection, txn.Key, fail)
    ELSE [db |-> db, err |-> ""]

\* a Commit that applies the operation and leaves its entry staged
ServerCommit_KeepsEntry(pend, db, txnID, fail) ==
    IF txnID \notin DOMAIN pend
    THEN [pending |-> pend, db |-> db, Success |-> FALSE,
          Error |-> "transaction not found", applied |-> FALSE]
    ELSE LET r == ApplyStaged(db, pend[txnID], fail) IN
         [pending |-> pend, db |-> r.db, Success |-> r.err = "",
          Error |-> r.err, applied |-> r.err = ""]

\* a Commit that forgets the staged entry when the engine fails
ServerCommit_Drop(pend, db, txnID, fail) ==
    IF txnID \notin DOMAIN pend
    THEN [pending |-> pend, db |-> db, Success |-> FALSE,
          Error |-> "transaction not found", applied |-> FALSE]
    ELSE LET r == ApplyStaged(db, pend[txnID], fail) IN
         [pending |-> unstage(pend, txnID), db |-> r.db, Success |-> r.err = "",
          Error |-> r.err, applied |-> r.err = ""]

\* a Commit that takes an id it does not hold for done
ServerCommit_Lenient(pend, db, txnID, fail) ==
    IF txnID \notin DOMAIN pend
    THEN [pending |-> pend, db |-> db, Success |-> TRUE, Error |-> "", applied |-> FALSE]
    ELSE LET r == ApplyStaged(db, pend[txnID], fail) IN
         IF r.err # ""
         THEN [pending |-> pend, db |-> db, Success |-> FALSE,
               Error |-> r.err, applied |-> FALSE]
         ELSE [pending |-> unstage(pend, txnID),
               db |-> r.db, Success |-> TRUE, Error |-> "", applied |-> TRUE]

ServerCommit(pend, db, txnID, fail) ==
    IF txnID \notin DOMAIN pend
    THEN [pending |-> pend, db |-> db, Success |-> FALSE,
          Error |-> "transaction not found", applied |-> FALSE]
    ELSE LET r == ApplyStaged(db, pend[txnID], fail) IN
         IF r.err # ""
         THEN [pending |-> pend, db |-> db, Success |-> FALSE,
               Error |-> r.err, applied |-> FALSE]
         ELSE [pending |-> unstage(pend, txnID),
               db |-> r.db, Success |-> TRUE, Error |-> "", applied |-> TRUE]

\* an Abort that reports failure for an id it does not hold
ServerAbort_Strict(pend, txnID) ==
    [pending |-> unstage(pend, txnID), Success |-> txnID \in DOMAIN pend]

ServerAbort(pend, txnID) ==
    [pending |-> unstage(pend, txnID), Success |-> TRUE]

(* ------------------------------- state --------------------------------- *)

VARIABLES
    clients,    \* Manager.clients: the slaves NewManager connected to
    txnID,      \* Manager.txnID
    seq,        \* Manager.seq
    engine,     \* the LevelDB database of every node
    pending,    \* Server.pending of every slave
    call,       \* the facade call each handler goroutine is running
    ncalls,     \* facade calls started so far
    applied,    \* per node, the transactions written to its engine, in order
    sent,       \* per slave, the RPCs the coordinator issued to it
    hist,       \* per kind of event, the transactions it happened to
    last,       \* the last request a participant served on its own, and the answer
    nreq        \* requests delivered to the participant on its own

vars == <<clients, txnID, seq, engine, pending, call, ncalls, applied, sent, hist, last, nreq>>

NoStatus == [r \in SlaveAddrs |-> "none"]

IdleCall ==
    [pc |-> "idle", node |-> Master, op |-> OpPut, collection |-> <<>>,
     key |-> <<>>, value |-> NoValue, data |-> NoBytes, txn |-> TxnName(0),
     seq |-> 0, prep |-> NoStatus, com |-> NoStatus, ab |-> NoStatus,
     result |-> "", after |-> {}, errs |-> << >>]

NoRequest ==
    [method |-> "none", txn |-> TxnName(0), seq |-> 0, staged |-> FALSE,
     ok |-> FALSE, error |-> ""]

NoHistory == [notReady |-> {}, aborted |-> {}, failed |-> {}]

\* NewManager keeps the addresses it could dial and drops the others with a
\* warning, so the client vector is any subset of SLAVE_ADDRS
NewManager(addrs, reachable) == addrs \cap reachable

\* the slaves that answer the dial at master start (the slaves are alike, so
\* one of them stands for either)
Reachable == {{}, {"slave-1"}, SlaveAddrs}

\* the databases are durable: a node starts empty or with what an earlier
\* run of the cluster left on every node
InitialDb == {EmptyDb, dbPut(EmptyDb, <<"c", ":", "k">>, <<"0">>)}

Init ==
    /\ \E reachable \in Reachable : clients = NewManager(SlaveAddrs, reachable)
    /\ txnID = 0
    /\ seq = 0
    /\ \E db \in InitialDb : engine = [n \in Nodes |-> db]
    /\ pending = [r \in SlaveAddrs |-> EmptyPending]
    /\ call = [h \in Handlers |-> IdleCall]
    /\ ncalls = 0
    /\ applied = [n \in Nodes |-> << >>]
    /\ sent = [r \in SlaveAddrs |-> {}]
    /\ hist = NoHistory
    /\ last = NoRequest
    /\ nreq = 0

(* ----------------------- storage.ReplicatedStore ----------------------- *)
(* A facade call runs on a handler goroutine.  pc is its position:         *)
(*   idle | seq | prepare | commit | abort | local | deleting | done       *)
(* result is "" while the call runs, "ok" on success, else the error:      *)
(*   role | key not found | invalid key | prepare | commit | local         *)

InProgress(h) == call[h].pc \notin {"idle", "done"}

\* the goroutines are interchangeable: a call runs on the first goroutine that
\* has not run one yet, and when all have, on h1 unless h1 is busy
CanStart(h) ==
    /\ ncalls < MaxCalls
    /\ ~InProgress(h)
    /\ IF \E g \in Handlers : call[g].pc = "idle"
       THEN call[h].pc = "idle" /\ (h = "h1" \/ call["h1"].pc # "idle")
       ELSE h = "h1" \/ InProgress("h1")

\* the call is over: its goroutines and channels are gone; what the caller
\* asked for, the transaction and sequence number it ran under, and its result
\* stay
Returned(c, res) ==
    [IdleCall EXCEPT !.pc = "done", !.result = res, !.op = c.op, !.txn = c.txn,
                     !.collection = c.collection, !.key = c.key,
                     !.value = c.value, !.data = c.data,
                     !.seq = c.seq, !.after = c.after, !.errs = c.errs]

\* main: only the master builds a Manager; s.manager is nil on a slave
HasManager(n) == IsMaster(n)

\* a generateTxnID that reads the counter and does not advance it
EnterReplication_Reuse(h, c) ==
    IF HasManager(c.node) /\ clients # {}
    THEN /\ txnID' = txnID
         /\ call' = [call EXCEPT ![h] = [c EXCEPT !.pc = "seq", !.txn = TxnName(txnID + 1)]]
    ELSE /\ txnID' = txnID
         /\ call' = [call EXCEPT ![h] = [c EXCEPT !.pc = "local"]]

\* a facade that starts a transaction whether or not there are clients
EnterReplication_Always(h, c) ==
    /\ txnID' = txnID + 1
    /\ call' = [call EXCEPT ![h] = [c EXCEPT !.pc = "seq", !.txn = TxnName(txnID + 1)]]

\* s.manager != nil && s.manager.SlaveCount() > 0, then replicate2PC up to
\* generateTxnID; otherwise straight to the local write
EnterReplication(h, c) ==
    IF HasManager(c.node) /\ clients # {}
    THEN /\ txnID' = txnID + 1
         /\ call' = [call EXCEPT ![h] = [c EXCEPT !.pc = "seq", !.txn = TxnName(txnID + 1)]]
    ELSE /\ txnID' = txnID
         /\ call' = [call EXCEPT ![h] = [c EXCEPT !.pc = "local"]]

\* after: the calls that had returned when this one was made
NewCall(n, op, collection, key, value, data) ==
    [IdleCall EXCEPT !.node = n, !.op = op, !.collection = collection,
                     !.key = key, !.value = value, !.data = data,
                     !.after = {g \in Handlers : call[g].pc = "done"}]

PutStart(h, n, collection, key, value) ==
    /\ CanStart(h)
    /\ ncalls' = ncalls + 1
    /\ LET c == NewCall(n, OpPut, collection, key, value, Marshal(value)) IN
       IF IsSlave(n)
       THEN /\ call' = [call EXCEPT ![h] = Returned(c, "role")]
            /\ txnID' = txnID
       ELSE EnterReplication(h, c)
    /\ UNCHANGED <<clients, seq, engine, pending, applied, sent, hist, last, nreq>>

DeleteStart(h, n, collection, key) ==
    /\ CanStart(h)
    /\ ncalls' = ncalls + 1
    /\ LET c == NewCall(n, OpDelete, collection, key, NoValue, NoBytes) IN
       IF IsSlave(n)
       THEN /\ call' = [call EXCEPT ![h] = Returned(c, "role")]
            /\ txnID' = txnID
       ELSE IF StoreGetErr(engine[n], collection, key) # ""
       THEN /\ call' = [call EXCEPT ![h] =
                           Returned(c, StoreGetErr(engine[n], collection, key))]
            /\ txnID' = txnID
       ELSE EnterReplication(h, c)
    /\ UNCHANGED <<clients, seq, engine, pending, applied, sent, hist, last, nreq>>

(* -------------------------- replication.Manager ------------------------ *)
(* RPC status per client:                                                  *)
(*   none | sent | ready | rejected | notfound | ok | err.                 *)
(* The coordinator's own bookkeeping (reading results from a channel,      *)
(* choosing commit or abort, starting the next round of goroutines,        *)
(* returning) touches no shared state, so it is folded into the step that  *)
(* delivers the last outstanding result.                                   *)

\* one goroutine per client in to; the calls in down fail in the transport
\* before they reach the slave
Issue(to, down) ==
    [r \in SlaveAddrs |-> IF r \notin to THEN "none"
                          ELSE IF r \in down THEN "err" ELSE "sent"]

\* a collect loop that reads one result per configured slave address
Collected_Configured(status) == \A r \in SlaveAddrs : status[r] \notin {"none", "sent"}

\* a collect loop that stops at the first result
Collected_Any(status) == \E r \in clients : status[r] # "sent"

Collected(status) == \A r \in clients : status[r] # "sent"

\* the orders in which the results of the goroutines in S can reach the channel
Orders(S) ==
    {o \in [1..Cardinality(S) -> S] : \A i, j \in 1..Cardinality(S) : o[i] = o[j] => i = j}

\* a coordinator content with one ready participant
allReady_Quorum(c) == \E r \in clients : c.prep[r] = "ready"

allReady(c) == \A r \in clients : c.prep[r] = "ready"

\* an abort list that holds every client
preparedClients_All(c) == clients

preparedClients(c) == {r \in clients : c.prep[r] = "ready"}

allCommitted(c) == \A r \in clients : c.com[r] = "ok"

\* all prepare results are in and every client is ready: one Commit per client
StartCommit(c, down) == [c EXCEPT !.pc = "commit", !.com = Issue(clients, down)]

\* abortAll: one Abort per prepared client
abortAll(c, down) ==
    [c EXCEPT !.pc = "abort", !.ab = Issue(preparedClients(c), down)]

\* a coordinator that aborts whatever the prepare results
Phase2_NeverCommit(c, down) ==
    IF c.pc = "prepare" /\ Collected(c.prep) THEN abortAll(c, down) ELSE c

\* a coordinator that commits whatever the prepare results
Phase2_AlwaysCommit(c, down) ==
    IF c.pc = "prepare" /\ Collected(c.prep) THEN StartCommit(c, down) ELSE c

\* PHASE 2: COMMIT or ABORT, once the prepare loop has read every result
Phase2(c, down) ==
    IF c.pc = "prepare" /\ Collected(c.prep)
    THEN IF allReady(c) THEN StartCommit(c, down) ELSE abortAll(c, down)
    ELSE c

\* replicate2PC returns an error: after abortAll, or with commitErrors
ReplicateError(c) ==
    \/ c.pc = "abort" /\ Collected(c.ab)
    \/ c.pc = "commit" /\ Collected(c.com) /\ \E r \in clients : c.com[r] # "ok"

\* a facade that drops the replication error and goes on to the local write
ReturnError_Ignored(c) ==
    IF ReplicateError(c) THEN [c EXCEPT !.pc = "local"] ELSE c

\* the facade on an error of ReplicatePut / ReplicateDelete: wrap it as
\* "replication failed" and return without touching the local store
ReturnError(c) ==
    IF ReplicateError(c)
    THEN Returned(c, IF c.pc = "abort" THEN "prepare" ELSE "commit")
    ELSE c

\* the RPCs the coordinator issues to slave r when it moves from before to after
Issued(before, after, r) ==
    IF before.pc = "seq" /\ after.pc = "prepare" /\ r \in clients
    THEN {<<"Prepare", before.txn>>}
    ELSE IF before.pc = "prepare" /\ after.pc = "commit" /\ r \in clients
    THEN {<<"Commit", before.txn>>}
    ELSE IF before.pc = "prepare" /\ after.pc = "abort" /\ r \in preparedClients(before)
    THEN {<<"Abort", before.txn>>}
    ELSE {}

Happened(c, after) ==
    [notReady |-> IF \E r \in clients : c.prep[r] \in {"err", "rejected"}
                  THEN {c.txn} ELSE {},
     aborted  |-> IF after.pc = "abort" THEN {c.txn} ELSE {},
     failed   |-> IF ReplicateError(after) THEN {c.txn} ELSE {}]

\* the coordinator of handler h runs on from record c (reached from record
\* from) until it has to wait for a slave or returns
Coordinate(h, from, c, down) ==
    LET after == Phase2(c, down) IN
    /\ down \subseteq clients
    /\ after = c => down = {}
    /\ \E o \in Orders(IF after.pc = "commit" /\ c.pc = "prepare" THEN down ELSE {}) :
          call' = [call EXCEPT ![h] =
                      ReturnError([after EXCEPT !.errs = IF o = << >> THEN @ ELSE o])]
    /\ sent' = [r \in SlaveAddrs |->
                  sent[r] \cup Issued(from, c, r) \cup Issued(c, after, r)]
    /\ hist' = [k \in DOMAIN hist |-> hist[k] \cup Happened(c, after)[k]]

\* a nextSeq that returns m.seq + 1 and does not store it
nextSeq_NoStore(h, down, down2) ==
    /\ call[h].pc = "seq"
    /\ down \subseteq clients
    /\ seq' = seq
    /\ \E o \in Orders(down) :
          Coordinate(h, call[h], [call[h] EXCEPT !.pc = "prepare", !.seq = seq + 1,
                                                 !.prep = Issue(clients, down),
                                                 !.errs = o], down2)
    /\ UNCHANGED <<clients, txnID, engine, pending, ncalls, applied, last, nreq>>

\* nextSeq, then one Prepare goroutine per client
nextSeq(h, down, down2) ==
    /\ call[h].pc = "seq"
    /\ down \subseteq clients
    /\ seq' = seq + 1
    /\ \E o \in Orders(down) :
          Coordinate(h, call[h], [call[h] EXCEPT !.pc = "prepare", !.seq = seq + 1,
                                                 !.prep = Issue(clients, down),
                                                 !.errs = o], down2)
    /\ UNCHANGED <<clients, txnID, engine, pending, ncalls, applied, last, nreq>>

PrepareRequest(c) ==
    [TransactionId |-> c.txn, Operation |-> c.op, Collection |-> c.collection,
     Key |-> c.key, Value |-> c.data, Sequence |-> c.seq]

\* the slave serves Prepare; the response reaches the coordinator unless it is
\* lost or the deadline expires first
PrepareDeliver(h, r, respLost, down) ==
    /\ call[h].pc = "prepare"
    /\ call[h].prep[r] = "sent"
    /\ LET res == ServerPrepare(pending[r], PrepareRequest(call[h])) IN
       /\ pending' = [pending EXCEPT ![r] = res.pending]
       /\ Coordinate(h, call[h], [call[h] EXCEPT !.prep[r] =
                            IF respLost THEN "err"
                            ELSE IF res.Ready THEN "ready" ELSE "rejected",
                            !.errs = IF respLost THEN Append(@, r) ELSE @], down)
    /\ UNCHANGED <<clients, txnID, seq, engine, ncalls, applied, last, nreq>>

\* the slave serves Abort; an error of the call is only logged
AbortDeliver(h, r, respLost) ==
    /\ call[h].pc = "abort"
    /\ call[h].ab[r] = "sent"
    /\ LET res == ServerAbort(pending[r], call[h].txn) IN
       /\ pending' = [pending EXCEPT ![r] = res.pending]
       /\ Coordinate(h, call[h], [call[h] EXCEPT !.ab[r] =
                            IF respLost THEN "err" ELSE "ok"], {})
    /\ UNCHANGED <<clients, txnID, seq, engine, ncalls, applied, last, nreq>>

\* the slave serves Commit
CommitDeliver(h, r, respLost, fail) ==
    /\ call[h].pc = "commit"
    /\ call[h].com[r] = "sent"
    /\ LET res == ServerCommit(pending[r], engine[r], call[h].txn, fail) IN
       /\ pending' = [pending EXCEPT ![r] = res.pending]
       /\ engine' = [engine EXCEPT ![r] = res.db]
       /\ applied' = [applied EXCEPT ![r] =
                         IF res.applied THEN Append(@, call[h].txn) ELSE @]
       /\ Coordinate(h, call[h], [call[h] EXCEPT !.com[r] =
                            IF respLost THEN "err"
                            ELSE IF res.Success THEN "ok"
                            ELSE IF res.Error = "transaction not found"
                            THEN "notfound" ELSE "rejected",
                            !.errs = IF respLost \/ ~res.Success
                                     THEN Append(@, r) ELSE @], {})
    /\ UNCHANGED <<clients, txnID, seq, ncalls, last, nreq>>


(* ------------------ ReplicatedStore: the local step -------------------- *)

\* a facade that writes locally without waiting for the commit results
Replicated_NoWait(h) == call[h].pc \in {"local", "commit"}

\* replication returned nil (or there was nothing to replicate)
Replicated(h) ==
    \/ call[h].pc = "local"
    \/ call[h].pc = "commit" /\ Collected(call[h].com) /\ allCommitted(call[h])

\* s.store.Put(collection, key, value)
LocalPut(h, fail) ==
    /\ Replicated(h)
    /\ call[h].op = OpPut
    /\ LET c == call[h]
           res == StorePut(engine[c.node], c.collection, c.key, c.value, fail) IN
       /\ engine' = [engine EXCEPT ![c.node] = res.db]
       /\ applied' = [applied EXCEPT ![c.node] =
                         IF res.err = "" THEN Append(@, c.txn) ELSE @]
       /\ call' = [call EXCEPT ![h] = Returned(c, IF res.err = "" THEN "ok" ELSE "local")]
    /\ UNCHANGED <<clients, txnID, seq, pending, ncalls, sent, hist, last, nreq>>

\* s.store.Delete: the existence check
LocalDeleteCheck(h) ==
    /\ Replicated(h)
    /\ call[h].op = OpDelete
    /\ LET c == call[h] IN
       call' = [call EXCEPT ![h] =
                   IF StoreGetErr(engine[c.node], c.collection, c.key) # ""
                   THEN Returned(c, "local")
                   ELSE [c EXCEPT !.pc = "deleting"]]
    /\ UNCHANGED <<clients, txnID, seq, engine, pending, ncalls, applied, sent, hist, last, nreq>>

\* s.store.Delete: the engine delete
LocalDeleteApply(h, fail) ==
    /\ call[h].pc = "deleting"
    /\ LET c == call[h] IN
       /\ engine' = [engine EXCEPT ![c.node] =
                        IF fail THEN @ ELSE dbDelete(@, makeKey(c.collection, c.key))]
       /\ applied' = [applied EXCEPT ![c.node] = IF fail THEN @ ELSE Append(@, c.txn)]
       /\ call' = [call EXCEPT ![h] = Returned(c, IF fail THEN "local" ELSE "ok")]
    /\ UNCHANGED <<clients, txnID, seq, pending, ncalls, sent, hist, last, nreq>>

Next ==
    \/ \E h \in Handlers, n \in Nodes, c \in Collections, k \in Keys, v \in Values :
          PutStart(h, n, c, k, v)
    \/ \E h \in Handlers, n \in Nodes, c \in Collections, k \in Keys :
          DeleteStart(h, n, c, k)
    \/ \E h \in Handlers, down \in SUBSET SlaveAddrs, down2 \in SUBSET SlaveAddrs :
          nextSeq(h, down, down2)
    \/ \E h \in Handlers, r \in SlaveAddrs, respLost \in BOOLEAN, down \in SUBSET SlaveAddrs :
          PrepareDeliver(h, r, respLost, down)
    \/ \E h \in Handlers, r \in SlaveAddrs, respLost \in BOOLEAN :
          AbortDeliver(h, r, respLost)
    \/ \E h \in Handlers, r \in SlaveAddrs, respLost \in BOOLEAN, fail \in BOOLEAN :
          CommitDeliver(h, r, respLost, fail)
    \/ \E h \in Handlers, fail \in BOOLEAN : LocalPut(h, fail)
    \/ \E h \in Handlers : LocalDeleteCheck(h)
    \/ \E h \in Handlers, fail \in BOOLEAN : LocalDeleteApply(h, fail)

Spec == Init /\ [][Next]_vars

(* ------------------- one client, slaves that restart ------------------- *)
(* The cluster under a client that waits for each response before its next *)
(* request, with slave processes that may stop and start again at any      *)
(* time.                                                                   *)

\* a slave process stops and starts again: NewServer makes an empty pending
\* map, the LevelDB directory is what it was
Restart(r) ==
    /\ pending[r] # EmptyPending
    /\ pending' = [pending EXCEPT ![r] = EmptyPending]
    /\ UNCHANGED <<clients, txnID, seq, engine, call, ncalls, applied, sent, hist, last, nreq>>

\* no facade call is running
Quiet == \A g \in Handlers : ~InProgress(g)

SerialPut(h, n, collection, key, value) == Quiet /\ PutStart(h, n, collection, key, value)

SerialDelete(h, n, collection, key) == Quiet /\ DeleteStart(h, n, collection, key)

NextRestart ==
    \/ \E h \in Handlers, n \in Nodes, c \in Collections, k \in Keys, v \in Values :
          SerialPut(h, n, c, k, v)
    \/ \E h \in Handlers, n \in Nodes, c \in Collections, k \in Keys :
          SerialDelete(h, n, c, k)
    \/ \E h \in Handlers, down \in SUBSET SlaveAddrs, down2 \in SUBSET SlaveAddrs :
          nextSeq(h, down, down2)
    \/ \E h \in Handlers, r \in SlaveAddrs, respLost \in BOOLEAN, down \in SUBSET SlaveAddrs :
          PrepareDeliver(h, r, respLost, down)
    \/ \E h \in Handlers, r \in SlaveAddrs, respLost \in BOOLEAN :
          AbortDeliver(h, r, respLost)
    \/ \E h \in Handlers, r \in SlaveAddrs, respLost \in BOOLEAN, fail \in BOOLEAN :
          CommitDeliver(h, r, respLost, fail)
    \/ \E h \in Handlers, fail \in BOOLEAN : LocalPut(h, fail)
    \/ \E h \in Handlers : LocalDeleteCheck(h)
    \/ \E h \in Handlers, fail \in BOOLEAN : LocalDeleteApply(h, fail)
    \/ \E r \in SlaveAddrs : Restart(r)

SpecRestart == Init /\ [][NextRestart]_vars

(* --------------------- one client, RPCs that complete ------------------ *)
(* The master under a client that waits for each response before its next  *)
(* request, with the scheduling the runtime and the call deadline give.    *)

\* the coordinator goroutine of h is scheduled, or one of its outstanding RPCs
\* completes: the slave answers, the transport fails, or the 10 s deadline of
\* the call's context cancels it
RpcCompletes(h) ==
    \/ \E down \in SUBSET SlaveAddrs, down2 \in SUBSET SlaveAddrs : nextSeq(h, down, down2)
    \/ \E r \in SlaveAddrs, respLost \in BOOLEAN, down \in SUBSET SlaveAddrs :
          PrepareDeliver(h, r, respLost, down)
    \/ \E r \in SlaveAddrs, respLost \in BOOLEAN : AbortDeliver(h, r, respLost)
    \/ \E r \in SlaveAddrs, respLost \in BOOLEAN, fail \in BOOLEAN :
          CommitDeliver(h, r, respLost, fail)

\* every RPC made under context.WithTimeout returns, and runnable goroutines run
Fairness == \A h \in Handlers : WF_vars(RpcCompletes(h))

\* the writes that enter replicate2PC are those made on the master
MasterPut(h, collection, key, value) ==
    Quiet /\ PutStart(h, Master, collection, key, value)

MasterDelete(h, collection, key) ==
    Quiet /\ DeleteStart(h, Master, collection, key)

NextLive ==
    \/ \E h \in Handlers, c \in Collections, k \in Keys, v \in Values :
          MasterPut(h, c, k, v)
    \/ \E h \in Handlers, c \in Collections, k \in Keys :
          MasterDelete(h, c, k)
    \/ \E h \in Handlers, down \in SUBSET SlaveAddrs, down2 \in SUBSET SlaveAddrs :
          nextSeq(h, down, down2)
    \/ \E h \in Handlers, r \in SlaveAddrs, respLost \in BOOLEAN, down \in SUBSET SlaveAddrs :
          PrepareDeliver(h, r, respLost, down)
    \/ \E h \in Handlers, r \in SlaveAddrs, respLost \in BOOLEAN :
          AbortDeliver(h, r, respLost)
    \/ \E h \in Handlers, r \in SlaveAddrs, respLost \in BOOLEAN, fail \in BOOLEAN :
          CommitDeliver(h, r, respLost, fail)
    \/ \E h \in Handlers, fail \in BOOLEAN : LocalPut(h, fail)
    \/ \E h \in Handlers : LocalDeleteCheck(h)
    \/ \E h \in Handlers, fail \in BOOLEAN : LocalDeleteApply(h, fail)

SpecLive == Init /\ [][NextLive]_vars /\ Fairness

(* ------------- the participant on its own (gRPC entry points) ---------- *)
(* Any client of the replication service may call Prepare, Commit and      *)
(* Abort with any request, in any order; the transport gives no            *)
(* exactly-once delivery.  P is the slave under test.                      *)

P == "slave-1"

TxnIds == {TxnName(1), TxnName(2)}

\* the operation field is an open enum on the wire
Operations == {OpPut, OpDelete, "UNKNOWN"}

PrepareRequests ==
    [TransactionId : TxnIds, Operation : Operations, Collection : Collections,
     Key : Keys, Value : {NoBytes, <<"1">>}, Sequence : {1, 2}]

\* a served request: its method, transaction id and sequence number (0 where
\* the request carries none), whether the id was staged when it arrived, and
\* the response
Answer(method, t, s, ok, error) ==
    [method |-> method, txn |-> t, seq |-> s, staged |-> t \in DOMAIN pending[P],
     ok |-> ok, error |-> error]

\* a Prepare that writes the operation to the engine as it stages it
ServePrepare_Applies(req) ==
    /\ nreq < MaxRequests
    /\ nreq' = nreq + 1
    /\ LET res == ServerPrepare(pending[P], req) IN
       /\ pending' = [pending EXCEPT ![P] = res.pending]
       /\ engine' = [engine EXCEPT ![P] =
                        ApplyStaged(@, PendingTransaction(req), FALSE).db]
       /\ last' = Answer("Prepare", req.TransactionId, req.Sequence, res.Ready, "")
    /\ UNCHANGED <<clients, txnID, seq, call, ncalls, applied, sent, hist>>

ServePrepare(req) ==
    /\ nreq < MaxRequests
    /\ nreq' = nreq + 1
    /\ LET res == ServerPrepare(pending[P], req) IN
       /\ pending' = [pending EXCEPT ![P] = res.pending]
       /\ last' = Answer("Prepare", req.TransactionId, req.Sequence, res.Ready, "")
    /\ UNCHANGED <<clients, txnID, seq, engine, call, ncalls, applied, sent, hist>>

ServeCommit(t, fail) ==
    /\ nreq < MaxRequests
    /\ nreq' = nreq + 1
    /\ LET res == ServerCommit(pending[P], engine[P], t, fail) IN
       /\ pending' = [pending EXCEPT ![P] = res.pending]
       /\ engine' = [engine EXCEPT ![P] = res.db]
       /\ applied' = [applied EXCEPT ![P] = IF res.applied THEN Append(@, t) ELSE @]
       /\ last' = Answer("Commit", t, 0, res.Success, res.Error)
    /\ UNCHANGED <<clients, txnID, seq, call, ncalls, sent, hist>>

ServeAbort(t) ==
    /\ nreq < MaxRequests
    /\ nreq' = nreq + 1
    /\ LET res == ServerAbort(pending[P], t) IN
       /\ pending' = [pending EXCEPT ![P] = res.pending]
       /\ last' = Answer("Abort", t, 0, res.Success, "")
    /\ UNCHANGED <<clients, txnID, seq, engine, call, ncalls, applied, sent, hist>>

InitServer ==
    /\ clients = {}
    /\ txnID = 0
    /\ seq = 0
    /\ \E db \in InitialDb : engine = [n \in Nodes |-> db]
    /\ pending = [r \in SlaveAddrs |-> EmptyPending]
    /\ call = [h \in Handlers |-> IdleCall]
    /\ ncalls = 0
    /\ applied = [n \in Nodes |-> << >>]
    /\ sent = [r \in SlaveAddrs |-> {}]
    /\ hist = NoHistory
    /\ last = NoRequest
    /\ nreq = 0

NextServer ==
    \/ \E req \in PrepareRequests : ServePrepare(req)
    \/ \E t \in TxnIds, fail \in BOOLEAN : ServeCommit(t, fail)
    \/ \E t \in TxnIds : ServeAbort(t)

SpecServer == InitServer /\ [][NextServer]_vars

(* --------------- the participant, handlers side by side ---------------- *)
(* gRPC runs every request of the participant on a goroutine of its own.   *)
(* Here call[h] is the handler goroutine h of participant P: where it      *)
(* stands in Prepare, Commit or Abort, its request, the entry it read from *)
(* s.pending, and what it found when it took s.mu.                         *)
(*   pc: idle | waiting | locked | staging | found | applied               *)

NoEntry == [Operation |-> "UNKNOWN", Collection |-> << >>, Key |-> << >>, Value |-> NoBytes]

IdleRpc ==
    [pc |-> "idle", method |-> "none", txn |-> TxnName(0), entry |-> NoEntry,
     pend0 |-> EmptyPending, db0 |-> EmptyDb]

\* between s.mu.Lock() and the deferred s.mu.Unlock()
Critical == {"locked", "staging", "found", "applied"}

\* a mutex that lets every caller in
MutexFree_Unguarded == TRUE

\* s.mu is not held
MutexFree == \A g \in Handlers : call[g].pc \notin Critical

\* a request arrives and its goroutine reaches s.mu.Lock()
Receive(h, method, t, entry) ==
    /\ nreq < MaxRequests
    /\ call[h].pc = "idle"
    /\ nreq' = nreq + 1
    /\ call' = [call EXCEPT ![h] = [IdleRpc EXCEPT !.pc = "waiting", !.method = method,
                                                   !.txn = t, !.entry = entry]]
    /\ UNCHANGED <<clients, txnID, seq, engine, pending, ncalls, applied, sent, hist, last>>

ReceivePrepare(h, req) ==
    Receive(h, "Prepare", req.TransactionId, PendingTransaction(req))

ReceiveCommit(h, t) == Receive(h, "Commit", t, NoEntry)

ReceiveAbort(h, t) == Receive(h, "Abort", t, NoEntry)

\* s.mu.Lock() returns
Lock(h) ==
    /\ call[h].pc = "waiting"
    /\ MutexFree
    /\ call' = [call EXCEPT ![h].pc = "locked", ![h].pend0 = pending[P],
                            ![h].db0 = engine[P]]
    /\ UNCHANGED <<clients, txnID, seq, engine, pending, ncalls, applied, sent, hist, last, nreq>>

\* the handler returns: the response goes out and the deferred Unlock runs
Respond(h, ok, error) ==
    /\ call' = [call EXCEPT ![h] = IdleRpc]
    /\ last' = Answer(call[h].method, call[h].txn, 0, ok, error)

\* Prepare: the duplicate check
PrepareCheck(h) ==
    /\ call[h].pc = "locked" /\ call[h].method = "Prepare"
    /\ IF call[h].txn \in DOMAIN pending[P]
       THEN Respond(h, TRUE, "")
       ELSE call' = [call EXCEPT ![h].pc = "staging"] /\ last' = last
    /\ UNCHANGED <<clients, txnID, seq, engine, pending, ncalls, applied, sent, hist, nreq>>

\* Prepare: s.pending[req.TransactionId] = &PendingTransaction{...}
PrepareStage(h) ==
    /\ call[h].pc = "staging"
    /\ pending' = [pending EXCEPT ![P] = stage(@, call[h].txn, call[h].entry)]
    /\ Respond(h, TRUE, "")
    /\ UNCHANGED <<clients, txnID, seq, engine, ncalls, applied, sent, hist, nreq>>

\* Commit: txn, exists := s.pending[req.TransactionId]
CommitLookup(h) ==
    /\ call[h].pc = "locked" /\ call[h].method = "Commit"
    /\ IF call[h].txn \in DOMAIN pending[P]
       THEN /\ call' = [call EXCEPT ![h].pc = "found",
                                    ![h].entry = pending[P][call[h].txn]]
            /\ last' = last
       ELSE Respond(h, FALSE, "transaction not found")
    /\ UNCHANGED <<clients, txnID, seq, engine, pending, ncalls, applied, sent, hist, nreq>>

\* Commit: the switch on txn.Operation and the engine write
CommitApply(h, fail) ==
    /\ call[h].pc = "found"
    /\ LET r == ApplyStaged(engine[P], call[h].entry, fail) IN
       IF r.err # ""
       THEN /\ Respond(h, FALSE, r.err)
            /\ UNCHANGED <<engine, applied>>
       ELSE /\ engine' = [engine EXCEPT ![P] = r.db]
            /\ applied' = [applied EXCEPT ![P] = Append(@, call[h].txn)]
            /\ call' = [call EXCEPT ![h].pc = "applied"]
            /\ last' = last
    /\ UNCHANGED <<clients, txnID, seq, pending, ncalls, sent, hist, nreq>>

\* Commit: delete(s.pending, req.TransactionId)
CommitRemove(h) ==
    /\ call[h].pc = "applied"
    /\ pending' = [pending EXCEPT ![P] = unstage(@, call[h].txn)]
    /\ Respond(h, TRUE, "")
    /\ UNCHANGED <<clients, txnID, seq, engine, ncalls, applied, sent, hist, nreq>>

\* Abort: delete(s.pending, req.TransactionId)
AbortRemove(h) ==
    /\ call[h].pc = "locked" /\ call[h].method = "Abort"
    /\ pending' = [pending EXCEPT ![P] = unstage(@, call[h].txn)]
    /\ Respond(h, TRUE, "")
    /\ UNCHANGED <<clients, txnID, seq, engine, ncalls, applied, sent, hist, nreq>>

InitMutex ==
    /\ clients = {}
    /\ txnID = 0
    /\ seq = 0
    /\ \E db \in InitialDb : engine = [n \in Nodes |-> db]
    /\ pending = [r \in SlaveAddrs |-> EmptyPending]
    /\ call = [h \in Handlers |-> IdleRpc]
    /\ ncalls = 0
    /\ applied = [n \in Nodes |-> << >>]
    /\ sent = [r \in SlaveAddrs |-> {}]
    /\ hist = NoHistory
    /\ last = NoRequest
    /\ nreq = 0

NextMutex ==
    \/ \E h \in Handlers, req \in PrepareRequests : ReceivePrepare(h, req)
    \/ \E h \in Handlers, t \in TxnIds : ReceiveCommit(h, t)
    \/ \E h \in Handlers, t \in TxnIds : ReceiveAbort(h, t)
    \/ \E h \in Handlers : Lock(h)
    \/ \E h \in Handlers : PrepareCheck(h)
    \/ \E h \in Handlers : PrepareStage(h)
    \/ \E h \in Handlers : CommitLookup(h)
    \/ \E h \in Handlers, fail \in BOOLEAN : CommitApply(h, fail)
    \/ \E h \in Handlers : CommitRemove(h)
    \/ \E h \in Handlers : AbortRemove(h)

SpecMutex == InitMutex /\ [][NextMutex]_vars

(* ---------------- the store on its own (adapter and reads) ------------- *)
(* The engine adapter of a node takes Put, Delete, PutDirect and           *)
(* DeleteDirect (from the facade's local step and from Server.Commit) with *)
(* any collection and key the HTTP adapter passes on; the read methods of  *)
(* the facade are open on every node.                                      *)

StoreNodes == {Master, P}

\* the collection is a query parameter: any string, the separator included
StoreCollections == {<<"a">>, <<"b">>, <<"a", ":", "b">>}

StoreKeys == {<<>>, <<"k">>, <<"b", ":", "k">>}

\* a served call: its arguments (value is NoValue where the method takes
\* none), its error ("" for nil) and what it returned besides
Reply(method, n, collection, key, value, err, result) ==
    [method |-> method, node |-> n, collection |-> collection, key |-> key,
     value |-> value, err |-> err, result |-> result]

Served(reply) ==
    /\ nreq < MaxRequests
    /\ nreq' = nreq + 1
    /\ last' = reply

CallPut(n, collection, key, value, fail) ==
    LET res == StorePut(engine[n], collection, key, value, fail) IN
    /\ Served(Reply("Put", n, collection, key, value, res.err, <<>>))
    /\ engine' = [engine EXCEPT ![n] = res.db]
    /\ UNCHANGED <<clients, txnID, seq, pending, call, ncalls, applied, sent, hist>>

CallDelete(n, collection, key, fail) ==
    LET res == StoreDelete(engine[n], collection, key, fail) IN
    /\ Served(Reply("Delete", n, collection, key, NoValue, res.err, <<>>))
    /\ engine' = [engine EXCEPT ![n] = res.db]
    /\ UNCHANGED <<clients, txnID, seq, pending, call, ncalls, applied, sent, hist>>

CallPutDirect(n, collection, key, value, fail) ==
    LET res == PutDirect(engine[n], collection, key, Marshal(value), fail) IN
    /\ Served(Reply("PutDirect", n, collection, key, value, res.err, <<>>))
    /\ engine' = [engine EXCEPT ![n] = res.db]
    /\ UNCHANGED <<clients, txnID, seq, pending, call, ncalls, applied, sent, hist>>

CallDeleteDirect(n, collection, key, fail) ==
    LET res == DeleteDirect(engine[n], collection, key, fail) IN
    /\ Served(Reply("DeleteDirect", n, collection, key, NoValue, res.err, <<>>))
    /\ engine' = [engine EXCEPT ![n] = res.db]
    /\ UNCHANGED <<clients, txnID, seq, pending, call, ncalls, applied, sent, hist>>

\* a facade that serves reads on the master only
ReplicatedGet_MasterOnly(n, collection, key) ==
    IF IsSlave(n) THEN [value |-> NoValue, err |-> "role"]
    ELSE StoreGet(engine[n], collection, key)

\* ReplicatedStore.Get
ReplicatedGet(n, collection, key) == StoreGet(engine[n], collection, key)

\* ReplicatedStore.List
ReplicatedList(n, collection) == StoreList(engine[n], collection)

\* ReplicatedStore.Count
ReplicatedCount(n, collection) == StoreCount(engine[n], collection)

\* ReplicatedStore.ListCollections
ReplicatedListCollections(n) == StoreListCollections(engine[n])

CallGet(n, collection, key) ==
    /\ Served(Reply("Get", n, collection, key, NoValue, ReplicatedGet(n, collection, key).err,
                    ReplicatedGet(n, collection, key).value))
    /\ UNCHANGED <<clients, txnID, seq, engine, pending, call, ncalls, applied, sent, hist>>

CallList(n, collection) ==
    /\ Served(Reply("List", n, collection, <<>>, NoValue, "", ReplicatedList(n, collection)))
    /\ UNCHANGED <<clients, txnID, seq, engine, pending, call, ncalls, applied, sent, hist>>

CallCount(n, collection) ==
    /\ Served(Reply("Count", n, collection, <<>>, NoValue, "", ReplicatedCount(n, collection)))
    /\ UNCHANGED <<clients, txnID, seq, engine, pending, call, ncalls, applied, sent, hist>>

CallListCollections(n) ==
    /\ Served(Reply("ListCollections", n, <<>>, <<>>, NoValue, "", ReplicatedListCollections(n)))
    /\ UNCHANGED <<clients, txnID, seq, engine, pending, call, ncalls, applied, sent, hist>>

InitStore ==
    /\ clients = {}
    /\ txnID = 0
    /\ seq = 0
    /\ \E db \in InitialDb : engine = [n \in Nodes |-> db]
    /\ pending = [r \in SlaveAddrs |-> EmptyPending]
    /\ call = [h \in Handlers |-> IdleCall]
    /\ ncalls = 0
    /\ applied = [n \in Nodes |-> << >>]
    /\ sent = [r \in SlaveAddrs |-> {}]
    /\ hist = NoHistory
    /\ last = Reply("none", Master, <<>>, <<>>, NoValue, "", <<>>)
    /\ nreq = 0

NextStore ==
    \/ \E n \in StoreNodes, c \in StoreCollections, k \in StoreKeys, v \in Values,
          fail \in BOOLEAN : CallPut(n, c, k, v, fail)
    \/ \E n \in StoreNodes, c \in StoreCollections, k \in StoreKeys, fail \in BOOLEAN :
          CallDelete(n, c, k, fail)
    \/ \E n \in StoreNodes, c \in StoreCollections, k \in StoreKeys, v \in Values,
          fail \in BOOLEAN : CallPutDirect(n, c, k, v, fail)
    \/ \E n \in StoreNodes, c \in StoreCollections, k \in StoreKeys, fail \in BOOLEAN :
          CallDeleteDirect(n, c, k, fail)
    \/ \E n \in StoreNodes, c \in StoreCollections, k \in StoreKeys : CallGet(n, c, k)
    \/ \E n \in StoreNodes, c \in StoreCollections : CallList(n, c)
    \/ \E n \in StoreNodes, c \in StoreCollections : CallCount(n, c)
    \/ \E n \in StoreNodes : CallListCollections(n)

SpecStore == InitStore /\ [][NextStore]_vars

(* ------------------- one process per value of ROLE --------------------- *)
(* A process started with each value the ROLE variable can be given, and   *)
(* SLAVE_ADDRS unset; its facade takes Put and Delete from clients.        *)

\* ROLE in the environment: unset, the two the code knows, and "replica"
RoleEnvs == {"", "master", "slave", "replica"}

getEnv(value, defaultValue) == IF value # "" THEN value ELSE defaultValue

\* Config.Role of a process started with ROLE = env
ConfigRole(env) == LoadRole(getEnv(env, "master"))

\* ReplicatedStore.Put on the process started with ROLE = env; result is the
\* role the call found in its Config
RolePut(env, collection, key, value, fail) ==
    LET res == StorePut(engine[env], collection, key, value, fail) IN
    IF ConfigRole(env) = RoleSlave
    THEN /\ Served(Reply("Put", env, collection, key, value, "role", ConfigRole(env)))
         /\ UNCHANGED <<clients, txnID, seq, engine, pending, call, ncalls, applied, sent, hist>>
    ELSE /\ Served(Reply("Put", env, collection, key, value, res.err, ConfigRole(env)))
         /\ engine' = [engine EXCEPT ![env] = res.db]
         /\ UNCHANGED <<clients, txnID, seq, pending, call, ncalls, applied, sent, hist>>

\* ReplicatedStore.Delete on the process started with ROLE = env
RoleDelete(env, collection, key, fail) ==
    LET res == StoreDelete(engine[env], collection, key, fail) IN
    IF ConfigRole(env) = RoleSlave
    THEN /\ Served(Reply("Delete", env, collection, key, NoValue, "role", ConfigRole(env)))
         /\ UNCHANGED <<clients, txnID, seq, engine, pending, call, ncalls, applied, sent, hist>>
    ELSE /\ Served(Reply("Delete", env, collection, key, NoValue, res.err, ConfigRole(env)))
         /\ engine' = [engine EXCEPT ![env] = res.db]
         /\ UNCHANGED <<clients, txnID, seq, pending, call, ncalls, applied, sent, hist>>

InitRole ==
    /\ clients = {}
    /\ txnID = 0
    /\ seq = 0
    /\ \E db \in InitialDb : engine = [env \in RoleEnvs |-> db]
    /\ pending = [r \in SlaveAddrs |-> EmptyPending]
    /\ call = [h \in Handlers |-> IdleCall]
    /\ ncalls = 0
    /\ applied = [n \in Nodes |-> << >>]
    /\ sent = [r \in SlaveAddrs |-> {}]
    /\ hist = NoHistory
    /\ last = Reply("none", "master", <<>>, <<>>, NoValue, "", "")
    /\ nreq = 0

NextRole ==
    \/ \E env \in RoleEnvs, c \in Collections, k \in Keys, v \in Values, fail \in BOOLEAN :
          RolePut(env, c, k, v, fail)
    \/ \E env \in RoleEnvs, c \in Collections, k \in Keys, fail \in BOOLEAN :
          RoleDelete(env, c, k, fail)

SpecRole == InitRole /\ [][NextRole]_vars

(* =============================== claims ================================ *)

Range(s) == {s[i] : i \in 1..Len(s)}

Count(s, x) == Cardinality({i \in 1..Len(s) : s[i] = x})

\* what a Get of the raw bytes sees
Read(db, dbKey) == IF dbKey \in DOMAIN db THEN <<"found", db[dbKey]>> ELSE <<"NotFound">>

\* handler h starts a call in this step
Starts(h) == ncalls' = ncalls + 1 /\ CanStart(h)

\* the call of handler h returns in this step
Returns(h) == call'[h].pc = "done" /\ (InProgress(h) \/ Starts(h))

\* node n holds what call c writes
Reflects(db, c) ==
    IF c.op = OpPut
    THEN Read(db, makeKey(c.collection, c.key)) = <<"found", c.data>>
    ELSE Read(db, makeKey(c.collection, c.key)) = <<"NotFound">>

\* C1 (as stated): when a Put or Delete on the master returns success, every
\* address of SLAVE_ADDRS has applied the operation exactly once and reads the
\* key as the master does.
C1_EveryConfiguredReplicaApplied ==
    [][\A h \in Handlers :
         Returns(h) /\ call'[h].result = "ok" =>
            \A r \in SlaveAddrs :
               /\ Count(applied'[r], call[h].txn) = 1
               /\ Read(engine'[r], makeKey(call[h].collection, call[h].key))
                    = Read(engine'[Master], makeKey(call[h].collection, call[h].key))]_vars

\* C2 (as stated): when a Put or Delete on the master returns, with success or
\* with a replication error, the master and the replicas of the client vector
\* either all hold the write or none of them does.
C2_AllOrNothingAtReturn ==
    [][\A h \in Handlers :
         Returns(h) /\ call'[h].result \in {"ok", "prepare", "commit"} =>
            \/ \A n \in {Master} \cup clients : Reflects(engine'[n], call[h])
            \/ \A n \in {Master} \cup clients : ~Reflects(engine'[n], call[h])]_vars

\* C3: once a participant has failed to prepare a transaction (transport
\* error, deadline or ready=false), no step of that call changes the engine of
\* any node, and the transaction is never written to the engine of the master
\* or of a replica afterwards.
C3_AbortedWriteTouchesNoEngine ==
    /\ [](\A t \in hist.notReady : \A n \in Nodes : t \notin Range(applied[n]))
    /\ [][\A h \in Handlers :
            call'[h] # call[h] /\ InProgress(h) /\ call[h].txn \in hist'.notReady
               => engine' = engine]_vars

C3_Witness ==
    \E h \in Handlers :
       /\ call[h].result = "prepare"
       /\ call[h].txn \in hist.notReady \cap hist.aborted
       /\ \E r \in SlaveAddrs : <<"Abort", call[h].txn>> \in sent[r]
       /\ \A n \in Nodes : Read(engine[n], <<"c", ":", "k">>) = <<"found", <<"0">>>>

\* C4 (I4): if any participant fails to prepare a transaction, the coordinator
\* sends Commit for it to no participant and no participant applies it.
C4_NoCommitAfterFailedPrepare ==
    \A t \in hist.notReady : \A r \in SlaveAddrs :
       /\ <<"Commit", t>> \notin sent[r]
       /\ Count(applied[r], t) = 0

C4_Witness ==
    \E t \in hist.notReady : \E r \in SlaveAddrs :
       /\ <<"Prepare", t>> \in sent[r]
       /\ <<"Abort", t>> \in sent[r]
       /\ t \notin DOMAIN pending[r]
       /\ \A h \in Handlers : call[h].txn = t => call[h].pc = "done"

\* C5 (I5): in every state where the master's engine has taken a replicated
\* write, every participant of the client vector has applied that transaction
\* before, and the master takes its local step only with every Commit
\* acknowledged.
C5_MasterAppliesAfterAllCommits ==
    /\ \A t \in Range(applied[Master]) \ {TxnName(0)} :
          \A r \in clients : Count(applied[r], t) = 1
    /\ \A h \in Handlers :
          call[h].pc = "deleting" /\ call[h].txn # TxnName(0)
             => \A r \in clients : call[h].com[r] = "ok"

C5_Witness ==
    /\ clients = SlaveAddrs
    /\ \E t \in Range(applied[Master]) : t # TxnName(0)

\* C6: a Put or Delete called on a node whose ROLE is slave returns an error in
\* one step, issues no RPC, consumes no transaction id or sequence number and
\* leaves every engine and every pending map as it was.
C6_SlaveRejectsWrites ==
    [][\A h \in Handlers, n \in Nodes, c \in Collections, k \in Keys :
         /\ EnvRole[n] = "slave"
         /\ \/ DeleteStart(h, n, c, k)
            \/ \E v \in Values : PutStart(h, n, c, k, v)
         => /\ call'[h].pc = "done"
            /\ call'[h].result = "role"
            /\ UNCHANGED <<engine, pending, applied, sent, txnID, seq>>]_vars

C6_Witness ==
    \E h \in Handlers : call[h].pc = "done" /\ call[h].result = "role"

\* C7: when replicate2PC returns an error, in the prepare phase or in the
\* commit phase, the facade call is over with an error and the master's engine
\* never takes that transaction.
C7_ReplicationErrorMeansNoLocalWrite ==
    \A t \in hist.failed :
       /\ t \notin Range(applied[Master])
       /\ \A h \in Handlers :
             call[h].txn = t =>
                call[h].pc = "done" /\ call[h].result \in {"prepare", "commit"}

C7_Witness ==
    \E h \in Handlers :
       /\ call[h].result = "commit"
       /\ call[h].txn \in hist.failed
       /\ \E r \in clients : call[h].txn \in Range(applied[r])

\* C8 (I3): a Prepare for a transaction id that is already in pending answers
\* ready=true and leaves pending as it was (one entry for the id, holding the
\* operation first staged), whatever the other fields of the request.
C8_PrepareIdempotent ==
    [][\A req \in PrepareRequests :
         ServePrepare(req) /\ req.TransactionId \in DOMAIN pending[P] =>
            /\ last'.ok
            /\ pending'[P] = pending[P]
            /\ engine' = engine]_vars

C8_Witness ==
    /\ last.method = "Prepare"
    /\ last.staged
    /\ last.ok
    /\ last.txn \in DOMAIN pending[P]

\* C9: Abort answers success=true and leaves the id out of pending; every
\* other staged entry and the engine are untouched, and for an id that is not
\* in pending nothing changes at all.
C9_AbortUnconditional ==
    [][\A t \in TxnIds :
         ServeAbort(t) =>
            /\ last'.ok
            /\ DOMAIN pending'[P] = DOMAIN pending[P] \ {t}
            /\ \A u \in DOMAIN pending'[P] : pending'[P][u] = pending[P][u]
            /\ engine' = engine
            /\ t \notin DOMAIN pending[P] => pending' = pending]_vars

C9_Witness ==
    /\ last.method = "Abort"
    /\ ~last.staged
    /\ last.ok
    /\ DOMAIN pending[P] # {}

\* C10: Delete on the master for a (non-empty) key that its engine does not
\* hold returns ErrKeyNotFound in one step: no transaction id, no sequence
\* number, no RPC, and no change to any engine or pending map.
C10_DeleteAbsentKey ==
    [][\A h \in Handlers, c \in Collections, k \in Keys :
         /\ k # <<>>
         /\ makeKey(c, k) \notin DOMAIN engine[Master]
         /\ DeleteStart(h, Master, c, k)
         => /\ call'[h].pc = "done"
            /\ call'[h].result = ErrKeyNotFound
            /\ UNCHANGED <<txnID, seq, sent, engine, pending, applied>>]_vars

C10_Witness ==
    \E h \in Handlers :
       /\ call[h].pc = "done"
       /\ call[h].op = OpDelete
       /\ call[h].result = ErrKeyNotFound
       /\ clients # {}

\* C11 (as stated): on every replica, the writes that returned success were
\* applied in the order of the sequence numbers the coordinator gave them.
C11_AppliedInSequenceOrder ==
    \A r \in SlaveAddrs : \A i, j \in 1..Len(applied[r]) : \A g, h \in Handlers :
       /\ i < j
       /\ call[g].txn = applied[r][i] /\ call[g].result = "ok"
       /\ call[h].txn = applied[r][j] /\ call[h].result = "ok"
       => call[g].seq < call[h].seq

\* the call on g had returned success before the call on h was made, both are
\* Puts of the same key on the master, and no goroutine has run a second call
PutThenPut(g, h) ==
    /\ g # h
    /\ g \notin call[g].after /\ h \notin call[h].after
    /\ g \in call[h].after
    /\ call[g].pc = "done" /\ call[g].result = "ok" /\ call[g].op = OpPut
    /\ call[h].op = OpPut /\ call[h].pc # "idle"
    /\ call[h].key = call[g].key

LastWrite(h) ==
    /\ h \notin call[h].after
    /\ \A g \in Handlers \ {h} :
          \/ call[g].pc = "idle"
          \/ g \notin call[g].after /\ g \in call[h].after

Plain == {c \in StoreCollections : ":" \notin Range(c)}

\* a listing with key k set to value v
WithKey(list, k, v) == [a \in DOMAIN list \cup {k} |-> IF a = k THEN v ELSE list[a]]

\* a listing without key k
WithoutKey(list, k) == [a \in DOMAIN list \ {k} |-> list[a]]

\* the served call r is a write that the store accepted
Puts(r) == r.method \in {"Put", "PutDirect"} /\ r.err = ""

Deletes(r) == r.method \in {"Delete", "DeleteDirect"} /\ r.err = ""

\* C15: over the collections of the data model, List(c) on a node is the map
\* of the keys last successfully put and not since deleted: a listing is empty
\* on an empty store, a successful Put adds the key with its value to the
\* listing of its collection, a successful Delete removes it, and every other
\* step (failed writes, reads, writes on another plain collection or another
\* node) leaves the listing as it was.
C15_ListIsLastPuts ==
    /\ [](\A n \in StoreNodes, c \in Plain :
             engine[n] = EmptyDb => StoreList(engine[n], c) = EmptyDb)
    /\ [][\A n \in StoreNodes, c \in Plain :
            LET old == StoreList(engine[n], c)
                new == StoreList(engine'[n], c)
                r   == last' IN
            IF r.node = n /\ r.collection = c /\ Puts(r)
            THEN new = WithKey(old, r.key, r.value)
            ELSE IF r.node = n /\ r.collection = c /\ Deletes(r)
            THEN new = WithoutKey(old, r.key)
            ELSE (r.node # n \/ r.collection \in Plain \/ ~(Puts(r) \/ Deletes(r)))
                    => new = old]_vars

C15_Witness ==
    \E n \in StoreNodes :
       /\ last.method = "Delete" /\ last.err = "" /\ last.node = n
       /\ last.collection = <<"a">> /\ last.key = <<"k">>
       /\ DOMAIN StoreList(engine[n], <<"a">>) = {<<"b", ":", "k">>}

\* C16 (as stated): over every collection and key the store accepts, a
\* successful Put or Delete on one collection leaves Get, List and Count of
\* every other collection as they were.
C16_CollisionFree ==
    [][\A n \in StoreNodes, c2 \in StoreCollections :
         (Puts(last') \/ Deletes(last')) /\ last'.collection # c2 =>
            /\ StoreList(engine'[n], c2) = StoreList(engine[n], c2)
            /\ StoreCount(engine'[n], c2) = StoreCount(engine[n], c2)
            /\ \A k2 \in StoreKeys :
                  StoreGet(engine'[n], c2, k2) = StoreGet(engine[n], c2, k2)]_vars

\* C17: Get, List, Count and ListCollections answer from the engine of the
\* node they are called on, master or slave alike, and the step issues no RPC,
\* takes no transaction id or sequence number and leaves every engine and
\* every pending map as it was.
C17_ReadsAreLocal ==
    [][LET r == last'
           db == engine[r.node] IN
       r.method \in {"Get", "List", "Count", "ListCollections"} =>
          /\ UNCHANGED <<engine, pending, sent, seq, txnID, applied, call>>
          /\ r.method = "Get" =>
                /\ r.err = StoreGet(db, r.collection, r.key).err
                /\ r.result = StoreGet(db, r.collection, r.key).value
          /\ r.method = "List" =>
                r.err = "" /\ r.result = StoreList(db, r.collection)
          /\ r.method = "Count" =>
                r.err = "" /\ r.result = StoreCount(db, r.collection)
          /\ r.method = "ListCollections" =>
                r.err = "" /\ r.result = StoreListCollections(db)]_vars

C17_Witness ==
    /\ last.method = "Get"
    /\ IsSlave(last.node)
    /\ last.err = ""
    /\ last.result \in Values
    /\ engine[last.node] # engine[Master]

\* C18 (as stated): a Prepare for a new transaction id whose sequence number is
\* not greater than one the participant has just staged answers ready=false
\* and stages nothing.
C18_PrepareRejectsOldSequence ==
    [][\A req \in PrepareRequests :
         /\ last.method = "Prepare" /\ last.ok /\ ~last.staged
         /\ req.Sequence <= last.seq
         /\ req.TransactionId \notin DOMAIN pending[P]
         /\ ServePrepare(req)
         => ~last'.ok /\ pending' = pending]_vars

\* C19 (as stated): a Prepare for a new transaction id with an empty key, or
\* with an operation that is neither PUT nor DELETE, answers ready=false and
\* adds no entry to pending.
C19_PrepareValidates ==
    [][\A req \in PrepareRequests :
         /\ req.Key = <<>> \/ req.Operation \notin {OpPut, OpDelete}
         /\ req.TransactionId \notin DOMAIN pending[P]
         /\ ServePrepare(req)
         => ~last'.ok /\ pending' = pending]_vars

\* C20: a Commit that reaches a participant for a transaction id it does not
\* hold (here: staged, acknowledged, then lost by a restart) answers
\* success=false with "transaction not found" and changes neither pending nor
\* any engine; the coordinator books the answer as a failed commit, the call
\* returns the commit-phase error once all results are in, and the master
\* never applies the transaction.
C20_CommitOfUnknownId ==
    /\ [][\A h \in Handlers, r \in SlaveAddrs, respLost \in BOOLEAN, fail \in BOOLEAN :
            /\ call[h].txn \notin DOMAIN pending[r]
            /\ CommitDeliver(h, r, respLost, fail)
            => /\ ~ServerCommit(pending[r], engine[r], call[h].txn, fail).Success
               /\ ServerCommit(pending[r], engine[r], call[h].txn, fail).Error
                     = "transaction not found"
               /\ pending' = pending /\ engine' = engine /\ applied' = applied
               /\ \/ call'[h].pc = "commit"
                     /\ call'[h].com[r] = (IF respLost THEN "err" ELSE "notfound")
                     /\ ~Collected(call'[h].com)
                  \/ call'[h].pc = "done" /\ call'[h].result = "commit"]_vars
    /\ [](\A h \in Handlers :
             (\E r \in clients : call[h].com[r] = "notfound")
                => ~Replicated(h) /\ call[h].txn \notin Range(applied[Master]))

C20_Witness ==
    \E h \in Handlers, r \in clients :
       /\ call[h].pc = "commit"
       /\ call[h].com[r] = "notfound"
       /\ call[h].txn \notin Range(applied[r])
       /\ call[h].txn \notin DOMAIN pending[r]
       /\ <<"Commit", call[h].txn>> \in sent[r]

\* C21: a Commit of a staged PUT or DELETE whose engine write fails (an I/O
\* error, or the adapter refusing the key) answers success=false with the
\* error and leaves pending and the engine as they were; a Commit whose write
\* succeeds answers success=true, removes exactly that entry and the engine
\* holds the operation.
C21_CommitKeepsEntryOnEngineError ==
    [][\A t \in TxnIds, fail \in BOOLEAN :
         /\ t \in DOMAIN pending[P]
         /\ pending[P][t].Operation \in {OpPut, OpDelete}
         /\ ServeCommit(t, fail)
         => LET txn == pending[P][t]
                dbKey == makeKey(txn.Collection, txn.Key) IN
            IF fail \/ txn.Key = <<>>
            THEN /\ ~last'.ok /\ last'.error \in {ErrEngine, ErrInvalidKey}
                 /\ pending' = pending /\ engine' = engine
            ELSE /\ last'.ok /\ last'.error = ""
                 /\ pending'[P] = unstage(pending[P], t)
                 /\ Read(engine'[P], dbKey) =
                       (IF txn.Operation = OpPut THEN <<"found", txn.Value>>
                        ELSE <<"NotFound">>)]_vars

C21_Witness ==
    /\ last.method = "Commit"
    /\ last.staged
    /\ ~last.ok
    /\ last.error = ErrEngine
    /\ last.txn \in DOMAIN pending[P]
    /\ pending[P][last.txn].Key # <<>>

\* the coordinator of h leaves the prepare phase by the abort path in this step
TakesAbortPath(h) ==
    /\ call[h].pc \in {"seq", "prepare"}
    /\ \/ call'[h].pc = "abort"
       \/ call'[h].pc = "done" /\ call'[h].result = "prepare"

\* C22: in the step in which the coordinator takes the abort path it issues
\* Abort(t) to exactly the participants whose Prepare came back without
\* transport error and with ready=true (the one answering in this step
\* included), and an Abort is issued at no other time.
C22_AbortExactlyThePrepared ==
    [][\A h \in Handlers :
         /\ \A r \in SlaveAddrs, respLost \in BOOLEAN, down \in SUBSET SlaveAddrs :
               PrepareDeliver(h, r, respLost, down) /\ TakesAbortPath(h) =>
                  LET ready == {q \in clients : call[h].prep[q] = "ready"} \cup
                               (IF ~respLost /\ ServerPrepare(pending[r],
                                                     PrepareRequest(call[h])).Ready
                                THEN {r} ELSE {})
                  IN \A q \in SlaveAddrs :
                        <<"Abort", call[h].txn>> \in sent'[q] <=> q \in ready
         /\ call[h].pc = "seq" /\ TakesAbortPath(h) =>
               \A q \in SlaveAddrs : <<"Abort", call[h].txn>> \notin sent'[q]
         /\ ~TakesAbortPath(h) =>
               \A q \in SlaveAddrs :
                  <<"Abort", call'[h].txn>> \in sent'[q]
                     => <<"Abort", call'[h].txn>> \in sent[q]]_vars

C22_Witness ==
    \E h \in Handlers :
       /\ call[h].pc = "abort"
       /\ clients = SlaveAddrs
       /\ call[h].prep["slave-1"] = "ready"
       /\ call[h].prep["slave-2"] = "err"
       /\ <<"Abort", call[h].txn>> \in sent["slave-1"]
       /\ <<"Abort", call[h].txn>> \notin sent["slave-2"]
       /\ call[h].txn \in DOMAIN pending["slave-2"]

\* the participants the coordinator has issued an RPC of this kind to for t
SentTo(kind, t) == {r \in SlaveAddrs : <<kind, t>> \in sent[r]}

\* C23: a call whose prepare results are all in is in the commit phase (one
\* Commit issued to every client, no Abort) exactly when every participant of
\* the client vector answered ready; with one participant in error or not
\* ready it is on the abort path, no Commit is issued to anyone and the call
\* returns the prepare error.
C23_Unanimity ==
    \A h \in Handlers :
       LET c == call[h]
           t == c.txn IN
       /\ c.pc = "commit" => allReady(c)
       /\ c.pc = "abort" => ~allReady(c)
       /\ c.pc \in {"commit", "abort"} \/ (c.pc \in {"deleting", "done"} /\ t # TxnName(0))
             => IF t \in hist.notReady
                THEN /\ SentTo("Commit", t) = {}
                     /\ c.pc \in {"abort", "done"}
                     /\ c.pc = "done" => c.result = "prepare"
                ELSE /\ SentTo("Commit", t) = clients
                     /\ SentTo("Abort", t) = {}
                     /\ c.pc # "abort"
                     /\ c.pc = "done" => c.result # "prepare"

C23_Witness ==
    \E g \in Handlers, h \in Handlers :
       /\ clients = SlaveAddrs
       /\ call[g].pc = "commit" /\ allReady(call[g])
       /\ call[h].pc = "abort"
       /\ call[h].prep["slave-1"] = "ready"
       /\ call[h].prep["slave-2"] = "err"
       /\ SentTo("Commit", call[h].txn) = {}

\* the participants whose RPC of the current phase has not completed
Outstanding(status) == {r \in clients : status[r] = "sent"}

\* C24: while a Prepare of a transaction is outstanding no Commit and no Abort
\* has been issued for it, a call in the commit or abort phase has every
\* Prepare completed, a call leaves the prepare phase only in the step that
\* completes its last outstanding Prepare (or at once when every Prepare fails
\* in the transport), and it leaves the commit phase only in the step that
\* completes its last outstanding Commit, or with none outstanding.
C24_NoShortCircuit ==
    /\ [](\A h \in Handlers :
            /\ call[h].pc \in {"seq", "prepare"}
                  => SentTo("Commit", call[h].txn) \cup SentTo("Abort", call[h].txn) = {}
            /\ call[h].pc \in {"commit", "abort"}
                  => /\ Outstanding(call[h].prep) = {}
                     /\ SentTo("Prepare", call[h].txn) = clients)
    /\ [][\A h \in Handlers :
            /\ call[h].pc = "prepare" /\ call'[h].pc # "prepare"
                  => \E r \in SlaveAddrs, respLost \in BOOLEAN, down \in SUBSET SlaveAddrs :
                        /\ Outstanding(call[h].prep) = {r}
                        /\ PrepareDeliver(h, r, respLost, down)
            /\ call[h].pc = "seq" /\ call'[h].pc \notin {"seq", "prepare"}
                  => \E down2 \in SUBSET SlaveAddrs : nextSeq(h, clients, down2)]_vars
    /\ [][\A h \in Handlers :
            call[h].pc = "commit" /\ call'[h].pc # "commit"
               => \/ Outstanding(call[h].com) = {}
                  \/ \E r \in SlaveAddrs, respLost \in BOOLEAN, fail \in BOOLEAN :
                        /\ Outstanding(call[h].com) = {r}
                        /\ CommitDeliver(h, r, respLost, fail)]_vars

C24_Witness ==
    \E h \in Handlers :
       /\ clients = SlaveAddrs
       /\ call[h].pc = "commit"
       /\ call[h].com["slave-1"] = "err"
       /\ call[h].com["slave-2"] = "sent"
       /\ call[h].txn \in DOMAIN pending["slave-2"]

\* replicate2PC of handler h has been entered and has not returned
InReplicate(h) ==
    \/ call[h].pc \in {"seq", "prepare", "abort"}
    \/ call[h].pc = "commit" /\ ~Collected(call[h].com)

\* C25: when every RPC returns or is cancelled at the deadline, every call of
\* Replicate that has been entered returns.
C25_ReplicateTerminates ==
    \A h \in Handlers : InReplicate(h) ~> ~InReplicate(h)

C25_Witness ==
    \E h \in Handlers, r \in SlaveAddrs :
       /\ call[h].pc = "done"
       /\ call[h].result = "commit"
       /\ <<"Commit", call[h].txn>> \in sent[r]
       /\ call[h].txn \in DOMAIN pending[r]
       /\ call[h].txn \in hist.failed

\* C26: with no participant in the client vector a write on the master issues
\* no RPC, starts no transaction and never ends with a replication error; its
\* result is that of the local engine alone: a Put of a non-empty key is ok
\* and Get then returns its value, a Delete is ok and Get then returns
\* NotFound (an engine error aside), and a Delete made after a successful Put
\* of the same key finds the key.
C26_SingleNode ==
    /\ [](clients = {} =>
            /\ txnID = 0 /\ seq = 0
            /\ \A r \in SlaveAddrs :
                  sent[r] = {} /\ pending[r] = EmptyPending /\ applied[r] = << >>
            /\ \A h \in Handlers :
                  /\ call[h].pc \notin {"seq", "prepare", "commit", "abort"}
                  /\ call[h].result \notin {"prepare", "commit"}
            /\ \A g, h \in Handlers :
                  /\ call[g].pc = "done" /\ call[g].op = OpPut /\ call[g].result = "ok"
                  /\ call[h].pc = "done" /\ call[h].op = OpDelete
                  /\ call[h].result # "role"
                  /\ call[h].collection = call[g].collection
                  /\ call[h].key = call[g].key
                  /\ g \in call[h].after /\ LastWrite(h)
                  => call[h].result \in {"ok", "local"})
    /\ [][clients = {} =>
            \A h \in Handlers, fail \in BOOLEAN :
               LET c == call[h] IN
               /\ LocalPut(h, fail) =>
                     /\ call'[h].result =
                           (IF fail \/ c.key = << >> THEN "local" ELSE "ok")
                     /\ call'[h].result = "ok" =>
                           StoreGet(engine'[Master], c.collection, c.key)
                              = [value |-> c.value, err |-> ""]
               /\ LocalDeleteApply(h, fail) =>
                     /\ call'[h].result = (IF fail THEN "local" ELSE "ok")
                     /\ call'[h].result = "ok" =>
                           StoreGet(engine'[Master], c.collection, c.key)
                              = [value |-> NoValue, err |-> ErrKeyNotFound]]_vars

C26_Witness ==
    \E g, h \in Handlers :
       /\ clients = {}
       /\ call[g].pc = "done" /\ call[g].op = OpPut /\ call[g].result = "ok"
       /\ call[g].key = <<"k">> /\ call[g].value = [kind |-> "number", text |-> "1"]
       /\ call[h].pc = "done" /\ call[h].op = OpDelete /\ call[h].result = "ok"
       /\ call[h].key = <<"k">>
       /\ g \in call[h].after /\ LastWrite(h)
       /\ StoreGet(engine[Master], <<"c">>, <<"k">>).err = ErrKeyNotFound

\* C27 (as stated): once a Put or Delete has returned the prepare failure, no
\* participant holds its transaction in the pending map.
C27_NothingStagedAfterPrepareFailure ==
    \A h \in Handlers :
       call[h].pc = "done" /\ call[h].result = "prepare"
          => \A r \in SlaveAddrs : call[h].txn \notin DOMAIN pending[r]

\* C28 (as stated): at a participant an id enters pending only by a Prepare
\* and leaves it only by a successful Commit or by an Abort, and the message
\* that follows the Commit or Abort that removed an id does not put the id back.
C28_AbsenceIsTerminal ==
    /\ [][\A t \in TxnIds :
            /\ t \in DOMAIN pending'[P] \ DOMAIN pending[P]
                  => \E req \in PrepareRequests :
                        req.TransactionId = t /\ ServePrepare(req)
            /\ t \in DOMAIN pending[P] \ DOMAIN pending'[P]
                  => /\ last'.txn = t /\ last'.ok
                     /\ last'.method \in {"Commit", "Abort"}]_vars
    /\ [][\A t \in TxnIds :
            /\ last.txn = t /\ last.method \in {"Commit", "Abort"}
            /\ last.ok /\ last.staged
            => t \notin DOMAIN pending'[P]]_vars

\* C29: no two calls carry the same sequence number, sequential or
\* concurrent; a call that acquires its number gets one greater than the
\* counter and than the number of every other call, and the counter moves to
\* it; the number does not change while the call runs, so every Prepare of the
\* transaction carries the same one.
C29_SequenceNumbersUnique ==
    /\ [](\A g, h \in Handlers :
            /\ call[h].seq <= seq
            /\ g # h /\ call[g].seq # 0 => call[g].seq # call[h].seq
            /\ call[h].pc \in {"prepare", "commit", "abort"}
                  => /\ call[h].seq # 0
                     /\ PrepareRequest(call[h]).Sequence = call[h].seq)
    /\ [][\A h \in Handlers :
            /\ call[h].pc = "seq" /\ call'[h].pc # "seq"
                  => /\ call'[h].seq = seq + 1
                     /\ seq' = seq + 1
                     /\ \A g \in Handlers : call'[h].seq > call[g].seq
            /\ InProgress(h) /\ InProgress(h)' /\ call[h].pc # "seq"
                  => call'[h].seq = call[h].seq
            /\ call[h].pc # "seq" => (seq' = seq \/ \E g \in Handlers : call[g].pc = "seq")]_vars

C29_Witness ==
    \E g, h \in Handlers :
       /\ call[g].pc = "prepare" /\ call[h].pc = "prepare"
       /\ call[g].txn = TxnName(1) /\ call[g].seq = 2
       /\ call[h].txn = TxnName(2) /\ call[h].seq = 1
       /\ clients = SlaveAddrs

\* the counter part of a transaction id
Counter(t) == t[2]

\* C30: no two calls use the same transaction id, sequential or concurrent;
\* the id a call generates has the counter part one above the coordinator's
\* counter, above that of every id in use or issued before, and the counter
\* moves to it and never goes back.
C30_TransactionIdsUnique ==
    /\ [](\A g, h \in Handlers :
            /\ Counter(call[h].txn) <= txnID
            /\ g # h /\ call[g].txn # TxnName(0) => call[g].txn # call[h].txn
            /\ \A r \in SlaveAddrs : \A m \in sent[r] : Counter(m[2]) \in 1..txnID)
    /\ [][/\ txnID' \in {txnID, txnID + 1}
          /\ \A h \in Handlers :
               call'[h].txn # call[h].txn /\ call'[h].txn # TxnName(0)
                  => /\ call'[h].txn = TxnName(txnID + 1)
                     /\ txnID' = txnID + 1
                     /\ \A g \in Handlers : Counter(call'[h].txn) > Counter(call[g].txn)
                     /\ \A r \in SlaveAddrs : \A m \in sent[r] :
                           Counter(call'[h].txn) > Counter(m[2])
          /\ txnID' # txnID
                  => \E h \in Handlers : call'[h].txn = TxnName(txnID')]_vars

C30_Witness ==
    \E g, h \in Handlers :
       /\ call[g].pc = "commit" /\ call[g].txn = TxnName(1)
       /\ call[h].pc = "seq" /\ call[h].txn = TxnName(2)
       /\ txnID = 2

\* the request of a Prepare handler, rebuilt from its registers
RequestOf(c) ==
    [TransactionId |-> c.txn, Operation |-> c.entry.Operation,
     Collection |-> c.entry.Collection, Key |-> c.entry.Key,
     Value |-> c.entry.Value, Sequence |-> 0]

\* the handler on h returns in this step with the response and the state the
\* whole handler, run alone on what it found when it took the mutex, produces
SerialOutcome(h) ==
    LET c == call[h] IN
    IF c.method = "Prepare"
    THEN LET r == ServerPrepare(c.pend0, RequestOf(c)) IN
         /\ pending'[P] = r.pending /\ engine'[P] = c.db0
         /\ last'.ok = r.Ready
    ELSE IF c.method = "Abort"
    THEN LET r == ServerAbort(c.pend0, c.txn) IN
         /\ pending'[P] = r.pending /\ engine'[P] = c.db0
         /\ last'.ok = r.Success
    ELSE \E fail \in BOOLEAN :
            LET r == ServerCommit(c.pend0, c.db0, c.txn, fail) IN
            /\ pending'[P] = r.pending /\ engine'[P] = r.db
            /\ last'.ok = r.Success /\ last'.error = r.Error

\* C31: at most one handler of a participant is between Lock and Unlock; while
\* a handler holds the mutex no other handler changes pending or the engine;
\* every handler returns with the outcome of running it alone at the moment it
\* took the mutex, so the handlers take effect in the order of their Lock; an
\* operation is written to the engine only while its entry is staged and no
\* other handler has written it, and an Abort discards no entry a Commit has
\* read or applied.
C31_HandlersSerial ==
    /\ [](Cardinality({h \in Handlers : call[h].pc \in Critical}) <= 1)
    /\ [][\A h \in Handlers :
            /\ call[h].pc \in Critical /\ call'[h] = call[h]
                  => pending' = pending /\ engine' = engine /\ applied' = applied
            /\ call[h].pc \in Critical /\ call'[h].pc = "idle" => SerialOutcome(h)
            /\ call[h].pc = "found" /\ call'[h].pc = "applied"
                  => /\ call[h].txn \in DOMAIN pending[P]
                     /\ pending[P][call[h].txn] = call[h].entry
                     /\ \A g \in Handlers \ {h} :
                           ~(call[g].pc = "applied" /\ call[g].txn = call[h].txn)
            /\ call[h].method = "Abort" /\ call[h].pc = "locked" /\ call'[h].pc = "idle"
                  => \A g \in Handlers \ {h} :
                        ~(call[g].pc \in {"found", "applied"} /\ call[g].txn = call[h].txn)]_vars

C31_Witness ==
    \E g, h \in Handlers :
       /\ call[g].method = "Commit" /\ call[g].pc = "applied"
       /\ call[h].method = "Abort" /\ call[h].pc = "waiting"
       /\ call[h].txn = call[g].txn
       /\ call[g].txn \in DOMAIN pending[P]

\* C32 (as stated): when two Put calls of the same key ran side by side on the
\* master and both returned success, the master and every replica hold the
\* value of the call with the higher sequence number.
C32_ConcurrentPutsConverge ==
    \A g, h \in Handlers :
       /\ g \notin call[g].after /\ h \notin call[h].after
       /\ g \notin call[h].after /\ h \notin call[g].after
       /\ call[g].pc = "done" /\ call[g].result = "ok" /\ call[g].op = OpPut
       /\ call[h].pc = "done" /\ call[h].result = "ok" /\ call[h].op = OpPut
       /\ call[g].collection = call[h].collection /\ call[g].key = call[h].key
       /\ call[g].seq < call[h].seq
       => \A n \in {Master} \cup clients :
             StoreGet(engine[n], call[h].collection, call[h].key)
                = [value |-> call[h].value, err |-> ""]

\* C33: when a write on a master with participants ends with the local-write
\* error, every participant of the client vector has applied the transaction
\* once and got no Abort for it, the master has not applied it, the error is
\* not one of the replication errors, and the step that returns it changes no
\* engine and no pending map and issues no RPC; a Put that was the last write
\* is then on every replica.
C33_LocalApplyError ==
    /\ [](\A h \in Handlers :
            call[h].pc = "done" /\ call[h].result = "local" /\ call[h].txn # TxnName(0)
               => /\ call[h].txn \notin hist.notReady \cup hist.aborted \cup hist.failed
                  /\ call[h].txn \notin Range(applied[Master])
                  /\ \A r \in clients :
                        /\ Count(applied[r], call[h].txn) = 1
                        /\ <<"Commit", call[h].txn>> \in sent[r]
                        /\ <<"Abort", call[h].txn>> \notin sent[r]
                        /\ call[h].op = OpPut /\ LastWrite(h)
                              => Reflects(engine[r], call[h]))
    /\ [][\A h \in Handlers :
            Returns(h) /\ call'[h].result = "local"
               => engine' = engine /\ pending' = pending /\ sent' = sent]_vars

C33_Witness ==
    \E h \in Handlers :
       /\ call[h].pc = "done" /\ call[h].result = "local" /\ call[h].op = OpPut
       /\ clients = SlaveAddrs
       /\ LastWrite(h)
       /\ \A r \in clients : Reflects(engine[r], call[h])
       /\ ~Reflects(engine[Master], call[h])

\* the participants the error returned by replicate2PC names: the text of the
\* first error of the list, which carries that client's address
NamedIn(c) == IF c.errs = << >> THEN {} ELSE {c.errs[1]}

\* C34 (as stated): the error a call returns from the prepare or the commit
\* phase names every participant whose RPC of that phase failed.
C34_ErrorNamesEveryFailure ==
    \A h \in Handlers :
       call[h].pc = "done" /\ call[h].result \in {"prepare", "commit"}
          => NamedIn(call[h]) = Range(call[h].errs)

\* Get, List and Count of every collection and key return on every node what
\* they returned before the step
ReadsUnchanged ==
    \A n \in Nodes, c \in Collections :
       /\ StoreList(engine'[n], c) = StoreList(engine[n], c)
       /\ StoreCount(engine'[n], c) = StoreCount(engine[n], c)
       /\ \A k \in Keys : StoreGet(engine'[n], c, k) = StoreGet(engine[n], c, k)

\* C35: a Prepare and an Abort served by a participant leave its engine as it
\* was, so Get, List and Count return after them what they returned before;
\* the engine changes only in a Commit that answers success for a staged id.
C35_PrepareStagesOnly ==
    [][/\ \A req \in PrepareRequests :
             ServePrepare(req) => engine' = engine /\ ReadsUnchanged
       /\ \A t \in TxnIds : ServeAbort(t) => engine' = engine /\ ReadsUnchanged
       /\ engine' # engine =>
             /\ last'.method = "Commit" /\ last'.ok
             /\ last'.txn \in DOMAIN pending[P]]_vars

C35_Witness ==
    \E t \in DOMAIN pending[P] :
       /\ last.method = "Prepare" /\ last.txn = t /\ ~last.staged
       /\ pending[P][t].Operation = OpPut
       /\ pending[P][t].Key = <<"k">>
       /\ pending[P][t].Value = <<"1">>
       /\ StoreGet(engine[P], pending[P][t].Collection, <<"k">>).value
             # [kind |-> "number", text |-> "1"]

\* C36 (as stated): a Put or Delete on a process started with ROLE=replica
\* finds the replica role and is rejected without touching the engine; on a
\* process started with ROLE=master or with ROLE unset it finds the master
\* role and is not rejected for its role; and the role a process's calls find
\* is the same in every call.
C36_RoleFromEnvironment ==
    /\ [](last.method \in {"Put", "Delete"} =>
            /\ last.node = "replica" => last.err = "role" /\ last.result # RoleMaster
            /\ last.node \in {"", "master"} => last.err # "role" /\ last.result = RoleMaster)
    /\ [][/\ last'.method \in {"Put", "Delete"} /\ last'.err = "role" => engine' = engine
          /\ last.method # "none" /\ last'.node = last.node
                => last'.result = last.result]_vars

\* the calls on g and h are Deletes of one key that ran side by side on the
\* master, both past the existence check, and both have returned from a
\* replication that succeeded
DeleteBesideDelete(g, h) ==
    /\ g # h
    /\ g \notin call[g].after /\ h \notin call[h].after
    /\ g \notin call[h].after /\ h \notin call[g].after
    /\ call[g].pc = "done" /\ call[g].op = OpDelete /\ call[g].txn # TxnName(0)
    /\ call[h].pc = "done" /\ call[h].op = OpDelete /\ call[h].txn # TxnName(0)
    /\ call[g].collection = call[h].collection /\ call[g].key = call[h].key
    /\ {call[g].result, call[h].result} \cap {"prepare", "commit"} = {}

\* C37 (as stated): of two Deletes of one existing key that ran side by side
\* on the master, not both return success and not both are committed on a
\* replica, and a Delete whose replication succeeded does not end with the
\* local-delete error unless the engine delete itself fails.
C37_ConcurrentDeletes ==
    /\ [](\A g, h \in Handlers :
            DeleteBesideDelete(g, h)
               => /\ ~(call[g].result = "ok" /\ call[h].result = "ok")
                  /\ \A r \in clients :
                        ~(call[g].txn \in Range(applied[r]) /\ call[h].txn \in Range(applied[r])))
    /\ [][\A h \in Handlers :
            call[h].op = OpDelete /\ call[h].pc = "commit" /\ Returns(h)
               => call'[h].result # "local"]_vars

\* C38: a Commit delivered again for the id of the Commit that has just
\* answered success answers success=false with "transaction not found" and
\* changes neither the engine nor pending; every write of a staged operation
\* to the engine takes its entry out of pending, so one accepted Prepare is
\* applied at most once.
C38_CommitAtMostOnce ==
    [][/\ \A t \in TxnIds, fail \in BOOLEAN :
             /\ last.method = "Commit" /\ last.ok /\ last.txn = t
             /\ ServeCommit(t, fail)
             => /\ ~last'.ok /\ last'.error = "transaction not found"
                /\ engine' = engine /\ pending' = pending /\ applied' = applied
       /\ applied' # applied =>
             /\ last'.txn \in DOMAIN pending[P]
             /\ last'.txn \notin DOMAIN pending'[P]
             /\ applied'[P] = Append(applied[P], last'.txn)]_vars

C38_Witness ==
    /\ last.method = "Commit" /\ ~last.ok /\ last.error = "transaction not found"
    /\ Count(applied[P], last.txn) = 1
    /\ last.txn \notin DOMAIN pending[P]

\* C39 (as stated): once a Put with the empty key on a master with
\* participants has returned, every Prepare of it having been answered, it has
\* returned an error, no node has applied it and no participant holds an entry
\* for it in pending.
C39_EmptyKeyLeavesNothing ==
    \A h \in Handlers :
       /\ call[h].pc = "done" /\ call[h].op = OpPut /\ call[h].key = << >>
       /\ call[h].txn # TxnName(0)
       /\ call[h].txn \notin hist.notReady
       => /\ call[h].result # "ok"
          /\ \A n \in Nodes : call[h].txn \notin Range(applied[n])
          /\ \A r \in SlaveAddrs : call[h].txn \notin DOMAIN pending[r]

====
